---------------------------- MODULE Spec2Model ----------------------------
(***************************************************************************)
(* word_frequencies: the concurrent ingest pipeline (runIngest), main     *)
(* with parseTotal in front of it, and the end of the variant that prints  *)
(* the first 100 entries.                                                  *)
(*                                                                         *)
(* One goroutine per source reads tab-separated rows                       *)
(* (token, year, occurrenceCount, volumeCount), sums the counts per        *)
(* canonical token in a local map, and after end of stream sends one       *)
(* wordStat per token above minOccurrences on an unbuffered channel,       *)
(* then a done signal; any read or parse error is sent on the error        *)
(* channel instead.  The collector selects over the three channels,        *)
(* appends the words, returns the first error, and after the last done     *)
(* signal sorts by frequency and returns.                                  *)
(*                                                                         *)
(* Strings are sequences of one-character strings.  uint64 values are      *)
(* four 16-bit limbs, least significant first, so that sums wrap at 2^64   *)
(* as they do in Go.  A frequency float64(occurrences)/float64(totalWords) *)
(* is kept as its two operands; float64 rounding is not modelled, the      *)
(* comparison of two frequencies is the comparison of the exact ratios.    *)
(***************************************************************************)
EXTENDS Integers, Sequences, FiniteSets, Bags, TLC

(***************************************************************************)
(* Bounds of the model.                                                    *)
(***************************************************************************)
MaxSrcs == 2
MaxRows == 2
MaxGroups == 3
MaxEntries == 130

(***************************************************************************)
(* Program constants.                                                      *)
(***************************************************************************)
minYear == 1960
minOccurrences == 10000
\* the number of entries the top-100 variant prints
topN == 100

(***************************************************************************)
(* uint64 arithmetic on limbs.                                             *)
(***************************************************************************)
LimbBase == 2^16
NLimbs == 64 \div 16

\* uint64(n) for an untyped constant or small value 0 <= n < 2^31
U64(n) == <<n % LimbBase, n \div LimbBase, 0, 0>>

RECURSIVE AddLimbs(_, _, _, _)
AddLimbs(a, b, i, carry) ==
    IF i > NLimbs THEN <<>>
    ELSE LET s == a[i] + b[i] + carry
         IN  <<s % LimbBase>> \o AddLimbs(a, b, i + 1, s \div LimbBase)

\* a + b on uint64: the carry out of the top limb is dropped
U64Add(a, b) == AddLimbs(a, b, 1, 0)

RECURSIVE GtFrom(_, _, _)
GtFrom(a, b, i) ==
    IF i = 0 THEN FALSE
    ELSE IF a[i] # b[i] THEN a[i] > b[i]
    ELSE GtFrom(a, b, i - 1)

\* a > b on uint64
U64Gt(a, b) == GtFrom(a, b, NLimbs)

\* uint64(-m) for a magnitude m: two's complement
U64Neg(m) == U64Add([i \in 1..NLimbs |-> LimbBase - 1 - m[i]], U64(1))

(***************************************************************************)
(* strconv.ParseInt(s, 10, bitSize)                                        *)
(***************************************************************************)
Digits == <<"0", "1", "2", "3", "4", "5", "6", "7", "8", "9">>

IsDigit(c) == \E d \in 1..Len(Digits) : Digits[d] = c

DigitVal(c) == (CHOOSE d \in 1..Len(Digits) : Digits[d] = c) - 1

\* a * 10 + d limb by limb; the carry out of the top limb is the overflow
RECURSIVE MulAddLimbs(_, _, _)
MulAddLimbs(a, i, carry) ==
    IF i > NLimbs THEN <<carry>>
    ELSE LET s == a[i] * 10 + carry
         IN  <<s % LimbBase>> \o MulAddLimbs(a, i + 1, s \div LimbBase)

\* the magnitude of a digit string: [err, mag]
RECURSIVE ParseUintFrom(_, _, _)
ParseUintFrom(s, i, acc) ==
    IF i > Len(s) THEN [err |-> "", mag |-> acc]
    ELSE IF ~IsDigit(s[i]) THEN [err |-> "syntax", mag |-> U64(0)]
    ELSE LET m == MulAddLimbs(acc, 1, DigitVal(s[i]))
         IN  IF m[NLimbs + 1] # 0 THEN [err |-> "range", mag |-> U64(0)]
             ELSE ParseUintFrom(s, i + 1, SubSeq(m, 1, NLimbs))

ParseUint(s) ==
    IF s = <<>> THEN [err |-> "syntax", mag |-> U64(0)]
    ELSE ParseUintFrom(s, 1, U64(0))

\* 1 << (bitSize - 1), for bitSize a multiple of 16
Cutoff(bitSize) ==
    [i \in 1..NLimbs |-> IF i = bitSize \div 16 THEN LimbBase \div 2 ELSE 0]

\* [err, neg, mag]: err is "" on success, and then the value is mag, negated
\* when neg
ParseInt(s, bitSize) ==
    IF s = <<>> THEN [err |-> "syntax", neg |-> FALSE, mag |-> U64(0)]
    ELSE LET neg  == s[1] = "-"
             rest == IF s[1] \in {"+", "-"} THEN Tail(s) ELSE s
             un   == ParseUint(rest)
         IN  IF un.err # "" THEN [err |-> un.err, neg |-> FALSE, mag |-> U64(0)]
             ELSE IF ~neg /\ ~U64Gt(Cutoff(bitSize), un.mag)
                  THEN [err |-> "range", neg |-> FALSE, mag |-> U64(0)]
             ELSE IF neg /\ U64Gt(un.mag, Cutoff(bitSize))
                  THEN [err |-> "range", neg |-> FALSE, mag |-> U64(0)]
             ELSE [err |-> "", neg |-> neg, mag |-> un.mag]

\* the value of a successful 16-bit parse as an integer
IntOf(p) == IF p.neg THEN 0 - p.mag[1] ELSE p.mag[1]

\* Uint64Of that takes the magnitude and drops the sign
Uint64OfMagnitude(p) == p.mag

\* uint64(n) of a successful 64-bit parse
Uint64Of(p) == IF p.neg THEN U64Neg(p.mag) ELSE p.mag

(***************************************************************************)
(* strings                                                                 *)
(***************************************************************************)
Upper == <<"A", "B", "C", "D", "E", "F", "G", "H", "I", "J", "K", "L", "M",
           "N", "O", "P", "Q", "R", "S", "T", "U", "V", "W", "X", "Y", "Z">>
Lower == <<"a", "b", "c", "d", "e", "f", "g", "h", "i", "j", "k", "l", "m",
           "n", "o", "p", "q", "r", "s", "t", "u", "v", "w", "x", "y", "z">>

ToLowerChar(c) ==
    IF \E u \in 1..Len(Upper) : Upper[u] = c
    THEN Lower[CHOOSE u \in 1..Len(Upper) : Upper[u] = c]
    ELSE c

\* strings.ToLower
ToLower(s) == [i \in 1..Len(s) |-> ToLowerChar(s[i])]

\* strings.Contains(s, c) for a one-character c
Contains(s, c) == \E i \in 1..Len(s) : s[i] = c

\* strings.Split(s, sep) for a one-character sep: the pieces between the
\* separators, Split(s, sep)[1] being Go's [0]
RECURSIVE SplitFrom(_, _, _, _)
SplitFrom(s, sep, i, piece) ==
    IF i > Len(s) THEN <<piece>>
    ELSE IF s[i] = sep THEN <<piece>> \o SplitFrom(s, sep, i + 1, <<>>)
    ELSE SplitFrom(s, sep, i + 1, Append(piece, s[i]))

Split(s, sep) == SplitFrom(s, sep, 1, <<>>)

(***************************************************************************)
(* Inputs: decoded rows and sources.                                       *)
(***************************************************************************)
\* what one r.Read() yields: a 4-field record, of which the code reads
\* record[0..2] (here rec[1..3]), or an error of the csv/gzip reader (a
\* failing gzip.NewReader is a source whose first outcome is the error: both
\* send the error on eChan and return)
Row(tok, year, count) == [err |-> FALSE, rec |-> <<tok, year, count>>]
ReadError == [err |-> TRUE, rec |-> <<>>]

Dog_NOUN == <<"D", "o", "g", "_", "N", "O", "U", "N">>
dog == <<"d", "o", "g">>
cat == <<"c", "a", "t">>
a_b == <<"a", ".", "b">>
_NOUN == <<"_", "N", "O", "U", "N">>

Y1959 == <<"1", "9", "5", "9">>
Y1960 == <<"1", "9", "6", "0">>
NotANumber == <<"x">>

N10000 == <<"1", "0", "0", "0", "0">>
N10001 == <<"1", "0", "0", "0", "1">>
N1 == <<"1">>
NMinus1 == <<"-", "1">>
NMinus2 == <<"-", "2">>

Rows ==
    { Row(Dog_NOUN, Y1960, N10000),
      Row(dog, Y1960, N1),
      Row(cat, Y1960, N10001),
      Row(cat, Y1959, N10001),
      Row(a_b, Y1960, N10001),
      Row(dog, NotANumber, N1),
      Row(cat, Y1960, NotANumber),
      Row(_NOUN, Y1960, N10001),
      Row(a_b, NotANumber, NotANumber),
      Row(cat, Y1959, NotANumber),
      ReadError }

\* rows whose counts are negative, with rows to sum them with
WrapRows ==
    { Row(cat, Y1960, N1),
      Row(cat, Y1960, N10001),
      Row(cat, Y1960, NMinus1),
      Row(cat, Y1960, NMinus2) }

SeqsUpTo(S, n) == UNION {[1..k -> S] : k \in 0..n}

\* a source: the outcomes of its successive reads; after the last one the
\* reader reports io.EOF
Sources == SeqsUpTo(Rows, MaxRows)

\* the argument lists of k sources runIngest is called with
SourceLists(k) == [1..k -> Sources]

\* the fields of the first record of the totals file, one group
\* "year,total,pages,volumes" each
G1960 == <<"1", "9", "6", "0", ",", "1", "0", "0", ",", "5", ",", "2">>
G1961 == <<"1", "9", "6", "1", ",", "7", ",", "1", ",", "1">>
G1950 == <<"1", "9", "5", "0", ",", "5", "0", ",", "3", ",", "1">>
GThreeParts == <<"1", "9", "6", "0", ",", "1", "0", "0", ",", "5">>
GEmpty == <<>>
GBadYear == <<"x", ",", "1", "0", "0", ",", "5", ",", "2">>
GBadTotal == <<"1", "9", "6", "0", ",", "x", ",", "5", ",", "2">>
G1950BadTotal == <<"1", "9", "5", "0", ",", "x", ",", "3", ",", "1">>
GShortBadYear == <<"x", ",", "1">>
G1960Minus1 == <<"1", "9", "6", "0", ",", "-", "1", ",", "5", ",", "2">>

Groups ==
    { G1960, G1961, G1950, GThreeParts, GEmpty, GBadYear, GBadTotal,
      G1950BadTotal, GShortBadYear, G1960Minus1 }

\* what tr.Read() yields on the totals file: its first record, or an error
TotalsRecord(fields) == [err |-> FALSE, fields |-> fields]
TotalsReadError == [err |-> TRUE, fields |-> <<>>]
TotalsInputs ==
    {TotalsRecord(f) : f \in SeqsUpTo(Groups, MaxGroups)} \cup {TotalsReadError}

\* strings.Split(total, ",") on the groups, worked out once
SplitMemo == [g \in Groups |-> Split(g, ",")]
YearTotals(total) == SplitMemo[total]

\* the year and count fields of the rows and of the groups, and their
\* parses, worked out once
FieldStrings ==
    UNION {{r.rec[2], r.rec[3]} : r \in {x \in Rows \cup WrapRows : ~x.err}}
    \cup UNION {{SplitMemo[g][i] : i \in 1..Len(SplitMemo[g])} : g \in Groups}

ParseMemo ==
    [bits \in {16, 64} |-> [s \in FieldStrings |-> ParseInt(s, bits)]]

\* strconv.ParseInt(field, 10, bits) on a field of a row
Parse(field, bits) == ParseMemo[bits][field]

\* the denominators runIngest is called with
Denominators == {U64(0), U64(100)}

(***************************************************************************)
(* State.                                                                  *)
(***************************************************************************)
VARIABLES
    totalWords,  \* runIngest's argument totalWords
    srcs,        \* runIngest's argument srcs
    launched,    \* how many iterations of the launch loop have run
    routines,    \* the collector's counter of outstanding goroutines
    wpc,         \* each goroutine's position
    pos,         \* how many reads each goroutine has made
    wordMap,     \* each goroutine's local map word -> occurrences
    pending,     \* the keys the goroutine's range loop has yet to visit
    werr,        \* the error a goroutine is sending on eChan
    cpc,         \* the collector's position
    wordStats,   \* the collector's slice
    retWords,    \* runIngest's first result
    retErr,      \* runIngest's second result
    totals,      \* parseTotal: what tr.Read() returned
    tpos,        \* parseTotal: how many groups its range loop has visited
    totalErr,    \* parseTotal's second result
    topStats,    \* top-100 variant: the slice wordStats
    topCap,      \* top-100 variant: cap(wordStats)
    topOut,      \* top-100 variant: the slice handed to fmt.Println
    topPc        \* top-100 variant: its position

\* the state of main and parseTotal, which runIngest does not touch
callerVars == <<totals, tpos, totalErr>>

\* the state of the end of the variant of runIngest that prints the first
\* 100 entries
topVars == <<topStats, topCap, topOut, topPc>>

vars == <<totalWords, srcs, launched, routines, wpc, pos, wordMap, pending,
          werr, cpc, wordStats, retWords, retErr, callerVars, topVars>>

Workers == 1..MaxSrcs
NoErr == [src |-> 0, what |-> "nil"]
EmptyMap == [k \in {} |-> U64(0)]

\* the top-100 variant is not running
TopIdle ==
    /\ topStats = <<>>
    /\ topCap = 0
    /\ topOut = <<>>
    /\ topPc = "idle"

\* runIngest is about to be called
Init ==
    /\ TopIdle
    /\ totals = TotalsRecord(<<>>)
    /\ tpos = 0
    /\ totalErr = ""
    /\ totalWords = U64(0)
    /\ srcs = <<>>
    /\ launched = 0
    /\ routines = 0
    /\ wpc = [w \in Workers |-> "idle"]
    /\ pos = [w \in Workers |-> 0]
    /\ wordMap = [w \in Workers |-> EmptyMap]
    /\ pending = [w \in Workers |-> {}]
    /\ werr = [w \in Workers |-> NoErr]
    /\ cpc = "main"
    /\ wordStats = <<>>
    /\ retWords = <<>>
    /\ retErr = NoErr

\* words, err := runIngest(total, files...): the channels are made and
\* routines is 0; with no source the launch loop has nothing to do
Call ==
    /\ UNCHANGED <<callerVars, topVars>>
    /\ cpc = "main"
    /\ totalWords' \in Denominators
    /\ \E k \in 0..MaxSrcs : srcs' \in SourceLists(k)
    /\ cpc' = IF Len(srcs') = 0 THEN "select" ELSE "launch"
    /\ UNCHANGED <<launched, routines, wpc, pos, wordMap, pending, werr,
                   wordStats, retWords, retErr>>

(***************************************************************************)
(* The launch loop: routines++ and go func(...) for each source.           *)
(***************************************************************************)
Launch ==
    /\ UNCHANGED <<callerVars, topVars>>
    /\ cpc = "launch"
    /\ launched < Len(srcs)
    /\ launched' = launched + 1
    /\ routines' = routines + 1
    /\ wpc' = [wpc EXCEPT ![launched + 1] = "read"]
    /\ cpc' = IF launched + 1 = Len(srcs) THEN "select" ELSE "launch"
    /\ UNCHANGED <<totalWords, srcs, pos, wordMap, pending, werr, wordStats,
                   retWords, retErr>>

(***************************************************************************)
(* The goroutine: the read loop.                                           *)
(***************************************************************************)
\* Canonical without the lower-casing
CanonicalNoLower(raw) == Split(raw, "_")[1]

\* the canonical word of a raw token
Canonical(raw) == ToLower(Split(raw, "_")[1])

\* the canonical words of the raw tokens of the rows, worked out once
CanonicalMemo ==
    [raw \in {r.rec[1] : r \in {x \in Rows : ~x.err}} |-> Canonical(raw)]

\* the word of record[0]
Word(raw) == CanonicalMemo[raw]

\* RowStep without the check for a period
RowStepNoPeriodCheck(row) ==
    IF row.err THEN "read"
    ELSE LET year == Parse(row.rec[2], 16)
         IN  IF year.err # "" THEN "year"
             ELSE IF IntOf(year) < minYear THEN "skip"
             ELSE IF Parse(row.rec[3], 64).err # "" THEN "count"
             ELSE "add"

\* RowStep with <= for < in the comparison with minYear
RowStepYearLeq(row) ==
    IF row.err THEN "read"
    ELSE IF Contains(row.rec[1], ".") THEN "skip"
    ELSE LET year == Parse(row.rec[2], 16)
         IN  IF year.err # "" THEN "year"
             ELSE IF IntOf(year) <= minYear THEN "skip"
             ELSE IF Parse(row.rec[3], 64).err # "" THEN "count"
             ELSE "add"

\* RowStep with both fields parsed before the period and year checks
RowStepParseFirst(row) ==
    IF row.err THEN "read"
    ELSE LET year == Parse(row.rec[2], 16)
         IN  IF year.err # "" THEN "year"
             ELSE IF Parse(row.rec[3], 64).err # "" THEN "count"
             ELSE IF Contains(row.rec[1], ".") THEN "skip"
             ELSE IF IntOf(year) < minYear THEN "skip"
             ELSE "add"

\* RowStep with the count's parse error dropped: the row is skipped
RowStepSkipBadCount(row) ==
    IF row.err THEN "read"
    ELSE IF Contains(row.rec[1], ".") THEN "skip"
    ELSE LET year == Parse(row.rec[2], 16)
         IN  IF year.err # "" THEN "year"
             ELSE IF IntOf(year) < minYear THEN "skip"
             ELSE IF Parse(row.rec[3], 64).err # "" THEN "skip"
             ELSE "add"

\* RowStep with the year's parse error dropped: the row is skipped
RowStepSkipBadYear(row) ==
    IF row.err THEN "read"
    ELSE IF Contains(row.rec[1], ".") THEN "skip"
    ELSE LET year == Parse(row.rec[2], 16)
         IN  IF year.err # "" THEN "skip"
             ELSE IF IntOf(year) < minYear THEN "skip"
             ELSE IF Parse(row.rec[3], 64).err # "" THEN "count"
             ELSE "add"

\* what the loop body does with one read: "read", "year", "count" for the
\* error it sends, "skip" for continue, "add" for the accumulation
RowStep(row) ==
    IF row.err THEN "read"
    ELSE IF Contains(row.rec[1], ".") THEN "skip"
    ELSE LET year == Parse(row.rec[2], 16)
         IN  IF year.err # "" THEN "year"
             ELSE IF IntOf(year) < minYear THEN "skip"
             ELSE IF Parse(row.rec[3], 64).err # "" THEN "count"
             ELSE "add"

\* Accumulate with = for +=
AccumulateAssign(wm, word, count) ==
    [k \in DOMAIN wm \cup {word} |-> IF k = word THEN count ELSE wm[k]]

\* wordMap[word] += uint64(count)
Accumulate(wm, word, count) ==
    [k \in DOMAIN wm \cup {word} |->
        IF k = word
        THEN U64Add(IF word \in DOMAIN wm THEN wm[word] ELSE U64(0), count)
        ELSE wm[k]]

\* where the goroutine stands in its range loop with the keys ks left: at
\* the next key, or past the loop at dChan <- true
AfterRange(ks) == IF ks = {} THEN "sendDone" ELSE "emit"

\* r.Read() returns io.EOF: break, and the range loop over wordMap begins
WorkerEOF(w) ==
    /\ UNCHANGED <<callerVars, topVars>>
    /\ wpc[w] = "read"
    /\ pos[w] = Len(srcs[w])
    /\ pending' = [pending EXCEPT ![w] = DOMAIN wordMap[w]]
    /\ wpc' = [wpc EXCEPT ![w] = AfterRange(DOMAIN wordMap[w])]
    /\ UNCHANGED <<totalWords, srcs, launched, routines, pos, wordMap, werr,
                   cpc, wordStats, retWords, retErr>>

\* one iteration of the read loop on a record or a reader error
WorkerRead(w) ==
    /\ UNCHANGED <<callerVars, topVars>>
    /\ wpc[w] = "read"
    /\ pos[w] < Len(srcs[w])
    /\ LET row  == srcs[w][pos[w] + 1]
           step == RowStep(row)
       IN  /\ pos' = [pos EXCEPT ![w] = pos[w] + 1]
           /\ IF step = "skip"
              THEN UNCHANGED <<wordMap, wpc, werr>>
              ELSE IF step = "add"
              THEN /\ wordMap' = [wordMap EXCEPT ![w] =
                          Accumulate(wordMap[w], Word(row.rec[1]),
                                     Uint64Of(Parse(row.rec[3], 64)))]
                   /\ UNCHANGED <<wpc, werr>>
              ELSE /\ werr' = [werr EXCEPT ![w] = [src |-> w, what |-> step]]
                   /\ wpc' = [wpc EXCEPT ![w] = "sendErr"]
                   /\ UNCHANGED wordMap
    /\ UNCHANGED <<totalWords, srcs, launched, routines, pending, cpc,
                   wordStats, retWords, retErr>>

(***************************************************************************)
(* The goroutine: the range loop over wordMap, and the collector's select. *)
(***************************************************************************)
\* AboveMin with >= for >
AtLeastMin(occurrences) == ~U64Gt(U64(minOccurrences), occurrences)

\* occurrences > minOccurrences
AboveMin(occurrences) == U64Gt(occurrences, U64(minOccurrences))

\* float64(occurrences) / float64(totalWords)
Frequency(occurrences, total) == [num |-> occurrences, den |-> total]

\* f > g on two frequencies of one run (they share the denominator); with a
\* zero denominator both are +Inf
FreqGreater(f, g) == IF f.den = U64(0) THEN FALSE ELSE U64Gt(f.num, g.num)

\* &wordStat{word: word, frequency: ...}
WordStat(word, occurrences) ==
    [word |-> word, frequency |-> Frequency(occurrences, totalWords)]

\* the range loop visits a key at or below the threshold: nothing is sent
EmitSkip(w) ==
    /\ UNCHANGED <<callerVars, topVars>>
    /\ wpc[w] = "emit"
    /\ \E k \in pending[w] :
          /\ ~AboveMin(wordMap[w][k])
          /\ pending' = [pending EXCEPT ![w] = pending[w] \ {k}]
          /\ wpc' = [wpc EXCEPT ![w] = AfterRange(pending[w] \ {k})]
    /\ UNCHANGED <<totalWords, srcs, launched, routines, pos, wordMap, werr,
                   cpc, wordStats, retWords, retErr>>

\* AppendWord that adds the occurrences to the entry the word already has
AppendWordSum(ws, word) ==
    IF \E i \in 1..Len(ws) : ws[i].word = word.word
    THEN [i \in 1..Len(ws) |->
            IF ws[i].word = word.word
            THEN [word |-> word.word,
                  frequency |-> Frequency(U64Add(ws[i].frequency.num,
                                                 word.frequency.num),
                                          word.frequency.den)]
            ELSE ws[i]]
    ELSE Append(ws, word)

\* AppendWord that keeps one entry per word
AppendWordMerge(ws, word) ==
    IF \E i \in 1..Len(ws) : ws[i].word = word.word THEN ws
    ELSE Append(ws, word)

\* wordStats = append(wordStats, word)
AppendWord(ws, word) == Append(ws, word)

\* wChan <- &wordStat{...} meets case word := <-words
RecvWord(w) ==
    /\ UNCHANGED <<callerVars, topVars>>
    /\ cpc = "select"
    /\ wpc[w] = "emit"
    /\ \E k \in pending[w] :
          /\ AboveMin(wordMap[w][k])
          /\ wordStats' = AppendWord(wordStats, WordStat(k, wordMap[w][k]))
          /\ pending' = [pending EXCEPT ![w] = pending[w] \ {k}]
          /\ wpc' = [wpc EXCEPT ![w] = AfterRange(pending[w] \ {k})]
    /\ UNCHANGED <<totalWords, srcs, launched, routines, pos, wordMap, werr,
                   cpc, retWords, retErr>>

\* less with < for >
lessAscending(a, b) == FreqGreater(b.frequency, a.frequency)

\* the less function of sort.Slice
less(a, b) == FreqGreater(a.frequency, b.frequency)

\* the orders of the indices ix of ws in which no element is followed by
\* one that less puts before it
RECURSIVE SortedOrders(_, _)
SortedOrders(ws, ix) ==
    IF ix = {} THEN {<<>>}
    ELSE UNION { {<<i>> \o t : t \in SortedOrders(ws, ix \ {i})} :
                 i \in {j \in ix : \A k \in ix : ~less(ws[k], ws[j])} }

\* sort.Slice(ws, less): sorted by less, and not guaranteed to be stable, so
\* any sorted arrangement of ws
SortSlice(ws) ==
    { [n \in 1..Len(ws) |-> ws[o[n]]] : o \in SortedOrders(ws, 1..Len(ws)) }

\* RoutinesAfterDone with routines = 0 for routines--
RoutinesAfterDoneReset(r) == 0

\* RoutinesAfterDone without the decrement
RoutinesAfterDoneKeep(r) == r

\* routines--
RoutinesAfterDone(r) == r - 1

\* dChan <- true meets case <-done; after the last one the loop is left,
\* the slice sorted and returned
RecvDone(w) ==
    /\ UNCHANGED <<callerVars, topVars>>
    /\ cpc = "select"
    /\ wpc[w] = "sendDone"
    /\ wpc' = [wpc EXCEPT ![w] = "exit"]
    /\ routines' = RoutinesAfterDone(routines)
    /\ IF routines' = 0
       THEN /\ cpc' = "returned"
            /\ retWords' \in SortSlice(wordStats)
            /\ retErr' = NoErr
       ELSE UNCHANGED <<cpc, retWords, retErr>>
    /\ UNCHANGED <<totalWords, srcs, launched, pos, wordMap, pending, werr,
                   wordStats>>

\* ErrWords with the words collected so far
ErrWordsPartial == wordStats

\* the slice returned beside an error: nil
ErrWords == <<>>

\* eChan <- err meets case err := <-errs: return nil, err
RecvErr(w) ==
    /\ UNCHANGED <<callerVars, topVars>>
    /\ cpc = "select"
    /\ wpc[w] = "sendErr"
    /\ wpc' = [wpc EXCEPT ![w] = "exit"]
    /\ cpc' = "returned"
    /\ retWords' = ErrWords
    /\ retErr' = werr[w]
    /\ UNCHANGED <<totalWords, srcs, launched, routines, pos, wordMap,
                   pending, werr, wordStats>>

Next ==
    \/ Call
    \/ Launch
    \/ \E w \in Workers : WorkerEOF(w)
    \/ \E w \in Workers : WorkerRead(w)
    \/ \E w \in Workers : EmitSkip(w)
    \/ \E w \in Workers : RecvWord(w)
    \/ \E w \in Workers : RecvDone(w)
    \/ \E w \in Workers : RecvErr(w)

Spec == Init /\ [][Next]_vars

\* the scheduler runs a runnable goroutine, and a select with a ready case
\* proceeds: while some step is possible, one is taken
FairSpec == Spec /\ WF_vars(Next)

(***************************************************************************)
(* main: parseTotal on the totals file, then runIngest on the data files.  *)
(* totalWords is parseTotal's local of that name, then the total main      *)
(* receives and hands to runIngest.                                        *)
(***************************************************************************)
ingestVars == <<srcs, launched, routines, wpc, pos, wordMap, pending, werr,
                wordStats, retWords, retErr>>

\* main has opened the totals file
MainInit ==
    /\ TopIdle
    /\ totals = TotalsRecord(<<>>)
    /\ tpos = 0
    /\ totalErr = ""
    /\ totalWords = U64(0)
    /\ srcs = <<>>
    /\ launched = 0
    /\ routines = 0
    /\ wpc = [w \in Workers |-> "idle"]
    /\ pos = [w \in Workers |-> 0]
    /\ wordMap = [w \in Workers |-> EmptyMap]
    /\ pending = [w \in Workers |-> {}]
    /\ werr = [w \in Workers |-> NoErr]
    /\ cpc = "totals"
    /\ wordStats = <<>>
    /\ retWords = <<>>
    /\ retErr = NoErr

\* parseTotal: totals, err := tr.Read(); on an error return 0, err
ParseTotalRead ==
    /\ UNCHANGED topVars
    /\ cpc = "totals"
    /\ totals' \in TotalsInputs
    /\ tpos' = 0
    /\ totalWords' = U64(0)
    /\ IF totals'.err
       THEN totalErr' = "read" /\ cpc' = "totalDone"
       ELSE totalErr' = "" /\ cpc' = "parseTotal"
    /\ UNCHANGED ingestVars

\* GroupStep with 3 for 4 in the test on the number of parts
GroupStepThreeParts(total) ==
    LET yearTotals == YearTotals(total)
    IN  IF Len(yearTotals) < 3 THEN "skip"
        ELSE LET year == Parse(yearTotals[1], 16)
             IN  IF year.err # "" THEN "year"
                 ELSE IF IntOf(year) < minYear THEN "skip"
                 ELSE IF Parse(yearTotals[2], 64).err # "" THEN "total"
                 ELSE "add"

\* what the body of parseTotal's loop does with one group: "year", "total"
\* for the error it returns, "skip" for continue, "add" for the addition
GroupStep(total) ==
    LET yearTotals == YearTotals(total)
    IN  IF Len(yearTotals) < 4 THEN "skip"
        ELSE LET year == Parse(yearTotals[1], 16)
             IN  IF year.err # "" THEN "year"
                 ELSE IF IntOf(year) < minYear THEN "skip"
                 ELSE IF Parse(yearTotals[2], 64).err # "" THEN "total"
                 ELSE "add"

\* one iteration of for _, total := range totals
ParseTotalStep ==
    /\ UNCHANGED topVars
    /\ cpc = "parseTotal"
    /\ tpos < Len(totals.fields)
    /\ LET total == totals.fields[tpos + 1]
           step  == GroupStep(total)
       IN  /\ tpos' = tpos + 1
           /\ IF step = "skip"
              THEN UNCHANGED <<totalWords, totalErr, cpc>>
              ELSE IF step = "add"
              THEN /\ totalWords' =
                          U64Add(totalWords,
                                 Uint64Of(Parse(YearTotals(total)[2], 64)))
                   /\ UNCHANGED <<totalErr, cpc>>
              ELSE /\ totalErr' = step
                   /\ totalWords' = U64(0)
                   /\ cpc' = "totalDone"
    /\ UNCHANGED <<totals, ingestVars>>

\* return totalWords, nil
ParseTotalReturn ==
    /\ UNCHANGED topVars
    /\ cpc = "parseTotal"
    /\ tpos = Len(totals.fields)
    /\ cpc' = "totalDone"
    /\ UNCHANGED <<totalWords, totals, tpos, totalErr, ingestVars>>

\* the data files main opens: none, or one of at most one row, or one of
\* two rows of one word with counts of either sign
MainSourceLists ==
    {<<>>, << <<>> >>} \cup {<< <<r>> >> : r \in Rows \cup WrapRows}
    \cup {<< <<r, q>> >> : r \in WrapRows, q \in WrapRows}

\* total, err := parseTotal(totalsFile) has returned; err is assigned anew
\* by filepath.Glob before anything reads it, the data files are opened and
\* runIngest(total, files...) is called
MainCall ==
    /\ UNCHANGED topVars
    /\ cpc = "totalDone"
    /\ srcs' \in MainSourceLists
    /\ cpc' = IF Len(srcs') = 0 THEN "select" ELSE "launch"
    /\ UNCHANGED <<totalWords, launched, routines, wpc, pos, wordMap, pending,
                   werr, wordStats, retWords, retErr, callerVars>>

MainNext ==
    \/ ParseTotalRead
    \/ ParseTotalStep
    \/ ParseTotalReturn
    \/ MainCall
    \/ Launch
    \/ \E w \in Workers : WorkerEOF(w)
    \/ \E w \in Workers : WorkerRead(w)
    \/ \E w \in Workers : EmitSkip(w)
    \/ \E w \in Workers : RecvWord(w)
    \/ \E w \in Workers : RecvDone(w)
    \/ \E w \in Workers : RecvErr(w)

MainSpec == MainInit /\ [][MainNext]_vars

(***************************************************************************)
(* The variant of runIngest that prints the first 100 entries: it appends  *)
(* the wordStats to one slice, sorts it and prints wordStats[:100].        *)
(***************************************************************************)
\* the i-th wordStat appended; the frequencies differ from entry to entry
TopEntry(i) == [word |-> cat, frequency |-> Frequency(U64(minOccurrences + i), U64(100))]

\* a nil *wordStat, as the zeroed tail of a grown backing array holds
NilPointer == [nil |-> TRUE]

TopInit ==
    /\ totals = TotalsRecord(<<>>)
    /\ tpos = 0
    /\ totalErr = ""
    /\ totalWords = U64(0)
    /\ srcs = <<>>
    /\ launched = 0
    /\ routines = 0
    /\ wpc = [w \in Workers |-> "idle"]
    /\ pos = [w \in Workers |-> 0]
    /\ wordMap = [w \in Workers |-> EmptyMap]
    /\ pending = [w \in Workers |-> {}]
    /\ werr = [w \in Workers |-> NoErr]
    /\ cpc = "variant"
    /\ wordStats = <<>>
    /\ retWords = <<>>
    /\ retErr = NoErr
    /\ topStats = <<>>
    /\ topCap = 0
    /\ topOut = <<>>
    /\ topPc = "collect"

\* the capacity append gives a slice of pointers that has to grow to
\* newLen: the length asked for if more than twice the old capacity, and
\* twice the old capacity otherwise (capacities below 256)
GrowCap(oldCap, newLen) ==
    IF newLen > 2 * oldCap THEN newLen ELSE 2 * oldCap

\* wordStats = append(wordStats, &wordStat{...})
TopAppend ==
    /\ topPc = "collect"
    /\ Len(topStats) < MaxEntries
    /\ topStats' = Append(topStats, TopEntry(Len(topStats) + 1))
    /\ topCap' = IF Len(topStats) + 1 > topCap
                 THEN GrowCap(topCap, Len(topStats) + 1)
                 ELSE topCap
    /\ UNCHANGED <<topOut, topPc, totalWords, cpc, ingestVars, callerVars>>

\* sort.Sort(descFreq(ws)) on entries of pairwise different frequencies:
\* each entry goes after the entries that Less puts before it
SortDesc(ws) ==
    LET n    == Len(ws)
        rank == [i \in 1..n |->
                    1 + Cardinality({j \in 1..n : less(ws[j], ws[i])})]
    IN  [p \in 1..n |-> ws[CHOOSE i \in 1..n : rank[i] = p]]

\* the files are read: sort.Sort(descFreq(wordStats))
TopSort ==
    /\ topPc = "collect"
    /\ topStats' = SortDesc(topStats)
    /\ topPc' = "sorted"
    /\ UNCHANGED <<topCap, topOut, totalWords, cpc, ingestVars, callerVars>>

\* ws[:high]: a run-time panic when high is above the capacity; otherwise
\* the first high elements of the backing array, nil past the length
TopSlice(ws, capacity, high) ==
    IF high > capacity
    THEN [panic |-> TRUE, out |-> <<>>]
    ELSE [panic |-> FALSE,
          out |-> [i \in 1..high |-> IF i <= Len(ws) THEN ws[i] ELSE NilPointer]]

\* fmt.Println(wordStats[:100])
TopPrint ==
    /\ topPc = "sorted"
    /\ LET sl == TopSlice(topStats, topCap, topN)
       IN  /\ topOut' = sl.out
           /\ topPc' = IF sl.panic THEN "panic" ELSE "printed"
    /\ UNCHANGED <<topStats, topCap, totalWords, cpc, ingestVars, callerVars>>

TopNext == TopAppend \/ TopSort \/ TopPrint

TopSpec == TopInit /\ [][TopNext]_vars

(***************************************************************************)
(* Reference definitions for the properties: what the sources hold, read   *)
(* off the rows themselves.                                                *)
(***************************************************************************)
Launched == 1..Len(srcs)

Success == cpc = "returned" /\ retErr = NoErr
Failure == cpc = "returned" /\ retErr # NoErr

\* an optional sign followed by at least one digit, all digits
Numeric(s) ==
    LET d == IF s # <<>> /\ s[1] \in {"+", "-"} THEN Tail(s) ELSE s
    IN  d # <<>> /\ \A i \in 1..Len(d) : IsDigit(d[i])

HasPeriod(row) == \E i \in 1..Len(row.rec[1]) : row.rec[1][i] = "."

YearOf(row) == IntOf(Parse(row.rec[2], 16))

\* the row stops the goroutine that reads it
RowMalformed(row) ==
    \/ row.err
    \/ ~HasPeriod(row) /\ ~Numeric(row.rec[2])
    \/ /\ ~HasPeriod(row) /\ Numeric(row.rec[2]) /\ YearOf(row) >= 1960
       /\ ~Numeric(row.rec[3])

Malformed(src) == \E i \in 1..Len(src) : RowMalformed(src[i])

\* the row counts towards its token's sum
RowCounted(row) ==
    /\ ~row.err /\ ~HasPeriod(row)
    /\ Numeric(row.rec[2]) /\ YearOf(row) >= 1960
    /\ Numeric(row.rec[3])

\* the raw token up to its first underscore, lower-cased
RefCanon(raw) ==
    LET us == {i \in 1..Len(raw) : raw[i] = "_"}
        n  == IF us = {} THEN Len(raw) + 1
              ELSE CHOOSE i \in us : \A j \in us : i <= j
    IN  [i \in 1..(n - 1) |-> ToLowerChar(raw[i])]

\* the sum of the counts of the first n rows of src that count towards word
RECURSIVE RefSumUpTo(_, _, _)
RefSumUpTo(src, word, n) ==
    IF n = 0 THEN U64(0)
    ELSE LET r == src[n]
             before == RefSumUpTo(src, word, n - 1)
         IN  IF RowCounted(r) /\ RefCanon(r.rec[1]) = word
             THEN U64Add(before, Uint64Of(Parse(r.rec[3], 64)))
             ELSE before

RefSum(src, word) == RefSumUpTo(src, word, Len(src))

\* the canonical tokens with a counted row among the first n rows of src
RefWordsUpTo(src, n) ==
    {RefCanon(src[i].rec[1]) : i \in {j \in 1..n : RowCounted(src[j])}}

RefWords(src) == RefWordsUpTo(src, Len(src))

RefStat(src, word) ==
    [word |-> word,
     frequency |-> [num |-> RefSum(src, word), den |-> totalWords]]

BagOfSeq(s) ==
    [x \in {s[i] : i \in DOMAIN s} |->
        Cardinality({i \in DOMAIN s : s[i] = x})]

\* the wordStats goroutine w sends once its range loop has run
SentBy(w) ==
    {WordStat(k, wordMap[w][k]) :
        k \in {j \in DOMAIN wordMap[w] : AboveMin(wordMap[w][j])}}

RECURSIVE SentByFirst(_)
SentByFirst(n) ==
    IF n = 0 THEN EmptyBag ELSE SentByFirst(n - 1) (+) SetToBag(SentBy(n))

\* f >= g on two frequencies of one run
FreqGeq(f, g) == f.den = U64(0) \/ ~U64Gt(g.num, f.num)
FreqEq(f, g) == FreqGeq(f, g) /\ FreqGeq(g, f)

\* byte order of the characters used
CharOrder == <<".">> \o Digits \o Upper \o <<"_">> \o Lower
CharRank(c) == CHOOSE i \in 1..Len(CharOrder) : CharOrder[i] = c

\* s <= t in Go's string order
RECURSIVE StrLeq(_, _)
StrLeq(s, t) ==
    IF s = <<>> THEN TRUE
    ELSE IF t = <<>> THEN FALSE
    ELSE IF s[1] # t[1] THEN CharRank(s[1]) < CharRank(t[1])
    ELSE StrLeq(Tail(s), Tail(t))

(***************************************************************************)
(* Properties.                                                             *)
(***************************************************************************)

\* C1: when some source is malformed, a return of runIngest is never a
\* success: it carries an error, and that error was sent by a goroutine
\* whose source is malformed.
C1_MalformedNeverSucceeds ==
    (cpc = "returned" /\ \E w \in Launched : Malformed(srcs[w]))
        => /\ retErr # NoErr
           /\ retErr.src \in Launched
           /\ Malformed(srcs[retErr.src])
           /\ retErr = werr[retErr.src]

\* C1 witness: an error is returned after another goroutine, with a
\* well-formed source, had already signalled done
C1_Witness ==
    /\ Failure
    /\ \E w \in Launched : ~Malformed(srcs[w]) /\ wpc[w] = "exit"

\* C2: whenever runIngest returns an error, the slice it returns is empty.
C2_ErrorReturnsNoWords == Failure => retWords = <<>>

\* C2 witness: the error arrives after words and a done signal were received
C2_Witness ==
    /\ Failure
    /\ Len(wordStats) > 0
    /\ routines < launched

\* C3: a successful return happens only after every goroutine has signalled
\* done, and the returned slice holds exactly the wordStats the goroutines
\* emitted, each as often as it was emitted.
C3_SuccessIsUnion ==
    Success =>
        /\ \A w \in Launched : wpc[w] = "exit" /\ werr[w] = NoErr
        /\ routines = 0
        /\ BagOfSeq(retWords) = SentByFirst(Len(srcs))

\* C3 witness: a success whose result holds the same word twice, once from
\* each source
C3_Witness ==
    /\ Success
    /\ \E i, j \in 1..Len(retWords) : i # j /\ retWords[i].word = retWords[j].word

\* C4: with at least one source, under fair scheduling, runIngest
\* eventually returns.
C4_EventuallyReturns == (Len(srcs) > 0) ~> (cpc = "returned")

\* C4 witness: with two sources, runIngest has returned while a goroutine
\* is still blocked on a send
C4_Witness ==
    /\ cpc = "returned"
    /\ Len(srcs) = MaxSrcs
    /\ \E w \in Launched : wpc[w] \in {"emit", "sendDone", "sendErr"}

\* C5: the slice returned on success is sorted by frequency, descending:
\* of two adjacent entries the earlier one's frequency is at least the later
\* one's.
C5_SortedDescending ==
    Success =>
        \A i \in 1..(Len(retWords) - 1) :
            FreqGeq(retWords[i].frequency, retWords[i + 1].frequency)

\* C5 witness: a success on words that arrived in ascending order
C5_Witness ==
    /\ Success
    /\ \E i \in 1..(Len(wordStats) - 1) :
          FreqGreater(wordStats[i + 1].frequency, wordStats[i].frequency)

\* C6: in the returned slice, adjacent entries of equal frequency are in
\* ascending order of their words.
C6_TiesByWord ==
    Success =>
        \A i \in 1..(Len(retWords) - 1) :
            FreqEq(retWords[i].frequency, retWords[i + 1].frequency)
                => StrLeq(retWords[i].word, retWords[i + 1].word)

\* C7: the returned slice is determined by the inputs: whatever order the
\* words arrived in, the sort has a single outcome, the one returned.
C7_Deterministic ==
    Success => \A q \in SortSlice(wordStats) : q = retWords

\* C8: a word is in the output of a source only if its sum over that source
\* is above minOccurrences, and every word of a source whose sum is above
\* minOccurrences is in the output; a sum of exactly minOccurrences is out,
\* one of minOccurrences + 1 is in.
C8_StrictThreshold ==
    /\ \A i \in 1..Len(wordStats) :
          \E w \in Launched :
              /\ wordStats[i] = RefStat(srcs[w], wordStats[i].word)
              /\ U64Gt(RefSum(srcs[w], wordStats[i].word), U64(10000))
    /\ Success =>
          \A w \in Launched : \A k \in RefWords(srcs[w]) :
              /\ U64Gt(RefSum(srcs[w], k), U64(10000))
                    => \E i \in 1..Len(retWords) : retWords[i] = RefStat(srcs[w], k)
              /\ (/\ RefSum(srcs[w], k) = U64(10000)
                  /\ \A v \in Launched \ {w} : k \notin RefWords(srcs[v]))
                    => \A i \in 1..Len(retWords) : retWords[i].word # k

\* C8 witness: a success where one word's sum is exactly the threshold and
\* another's exactly the threshold plus one
C8_Witness ==
    /\ Success
    /\ \E w \in Launched : \E k \in RefWords(srcs[w]) :
          /\ RefSum(srcs[w], k) = U64(10000)
          /\ \A v \in Launched \ {w} : k \notin RefWords(srcs[v])
    /\ \E w \in Launched : \E k \in RefWords(srcs[w]) :
          RefSum(srcs[w], k) = U64(10001)

\* C9: a word found in exactly one source, with a sum over all the counted
\* rows of that source above the threshold, has exactly one entry in the
\* output, with frequency that sum over the denominator.
C9_FrequencyIsWholeSum ==
    Success =>
        \A w \in Launched : \A k \in RefWords(srcs[w]) :
            (/\ \A v \in Launched \ {w} : k \notin RefWords(srcs[v])
             /\ U64Gt(RefSum(srcs[w], k), U64(10000)))
                => /\ Cardinality({i \in 1..Len(retWords) : retWords[i].word = k}) = 1
                   /\ \A i \in 1..Len(retWords) :
                         retWords[i].word = k =>
                             retWords[i].frequency =
                                 [num |-> RefSum(srcs[w], k), den |-> totalWords]

\* C9 witness: a success with a word of one source only whose sum is made
\* of two rows
C9_Witness ==
    /\ Success
    /\ \E w \in Launched : \E k \in RefWords(srcs[w]) :
          /\ \A v \in Launched \ {w} : k \notin RefWords(srcs[v])
          /\ Len(srcs[w]) = 2
          /\ RowCounted(srcs[w][1]) /\ RowCounted(srcs[w][2])
          /\ RefCanon(srcs[w][1].rec[1]) = k
          /\ RefCanon(srcs[w][2].rec[1]) = k
          /\ \E i \in 1..Len(retWords) : retWords[i].word = k

\* C10: the key a row adds to is its raw token up to the first underscore,
\* lower-cased, so rows with the same canonical token share one running
\* sum: at every point a goroutine's map holds exactly the canonical tokens
\* of the counted rows read so far, each with the sum of those rows, and
\* "Dog_NOUN" and "dog" both go to "dog".
C10_CanonicalToken ==
    /\ Canonical(Dog_NOUN) = dog
    /\ Canonical(dog) = dog
    /\ \A w \in Launched :
          /\ DOMAIN wordMap[w] = RefWordsUpTo(srcs[w], pos[w])
          /\ \A k \in DOMAIN wordMap[w] :
                wordMap[w][k] = RefSumUpTo(srcs[w], k, pos[w])

\* C10 witness: a goroutine has read a "Dog_NOUN" row and a "dog" row into
\* the single entry "dog"
C10_Witness ==
    \E w \in Launched :
        /\ pos[w] = 2
        /\ srcs[w][1].rec[1] = Dog_NOUN /\ RowCounted(srcs[w][1])
        /\ srcs[w][2].rec[1] = dog /\ RowCounted(srcs[w][2])
        /\ DOMAIN wordMap[w] = {dog}
        /\ wordMap[w][dog] = U64(10001)

\* goroutine w takes one iteration of its read loop in this step, on the
\* row it returns
Reads(w) == wpc[w] = "read" /\ pos[w] < Len(srcs[w]) /\ pos'[w] = pos[w] + 1
RowRead(w) == srcs[w][pos[w] + 1]

\* C11: an iteration of a read loop on a row whose raw token holds a period
\* leaves every goroutine's map as it was.
C11_PeriodRowsLeaveSums ==
    [][\A w \in Workers :
          (Reads(w) /\ ~RowRead(w).err /\ HasPeriod(RowRead(w)))
              => wordMap' = wordMap]_vars

\* C11 witness: a goroutine has read a counted row and then a row with a
\* period, of year 1960 and numeric count, and its map holds the first row
\* only
C11_Witness ==
    \E w \in Launched :
        /\ pos[w] = 2
        /\ srcs[w][1] = Row(cat, Y1960, N10001)
        /\ srcs[w][2] = Row(a_b, Y1960, N10001)
        /\ DOMAIN wordMap[w] = {cat}
        /\ wordMap[w][cat] = U64(10001)

\* C12: an iteration on a row of year below 1960 leaves every goroutine's
\* map as it was; an iteration on a row of year 1960, with no period in its
\* token and a numeric count, adds the count to the sum of the row's
\* canonical token and leaves the other sums alone.
C12_YearCutoff ==
    [][\A w \in Workers :
          (Reads(w) /\ ~RowRead(w).err) =>
              LET row  == RowRead(w)
                  word == RefCanon(row.rec[1])
                  old  == IF word \in DOMAIN wordMap[w] THEN wordMap[w][word]
                          ELSE U64(0)
              IN  /\ (Numeric(row.rec[2]) /\ YearOf(row) < 1960)
                        => wordMap' = wordMap
                  /\ (/\ Numeric(row.rec[2]) /\ YearOf(row) = 1960
                      /\ ~HasPeriod(row) /\ Numeric(row.rec[3]))
                        => /\ DOMAIN wordMap'[w] = DOMAIN wordMap[w] \cup {word}
                           /\ wordMap'[w][word] =
                                 U64Add(old, Uint64Of(Parse(row.rec[3], 64)))
                           /\ \A k \in DOMAIN wordMap[w] \ {word} :
                                 wordMap'[w][k] = wordMap[w][k]
                           /\ \A v \in Workers \ {w} : wordMap'[v] = wordMap[v]
      ]_vars

\* C12 witness: a goroutine has read a row of 1959 and then a row of 1960
\* for the same token, and the sum is the count of the second
C12_Witness ==
    \E w \in Launched :
        /\ pos[w] = 2
        /\ srcs[w][1] = Row(cat, Y1959, N10001)
        /\ srcs[w][2] = Row(cat, Y1960, N10001)
        /\ wordMap[w][cat] = U64(10001)

\* the places of the commas of a group, and the n-th of them
Commas(g) == {i \in 1..Len(g) : g[i] = ","}
NthComma(g, n) ==
    CHOOSE i \in Commas(g) : Cardinality({j \in Commas(g) : j < i}) = n - 1

\* the number of comma-separated parts of a group, and the n-th part
Parts(g) == Cardinality(Commas(g)) + 1
Part(g, n) ==
    LET from == IF n = 1 THEN 1 ELSE NthComma(g, n - 1) + 1
        to   == IF n = Parts(g) THEN Len(g) ELSE NthComma(g, n) - 1
    IN  SubSeq(g, from, to)

GroupYear(g) == IntOf(Parse(Part(g, 1), 16))

\* a group of at least 4 parts whose year, or whose total when the year is
\* 1960 or later, is no integer
GroupInvalid(g) ==
    /\ Parts(g) >= 4
    /\ \/ ~Numeric(Part(g, 1))
       \/ GroupYear(g) >= 1960 /\ ~Numeric(Part(g, 2))

\* a group whose total counts: at least 4 parts and year 1960 or later
GroupCounted(g) ==
    /\ Parts(g) >= 4
    /\ Numeric(Part(g, 1)) /\ GroupYear(g) >= 1960
    /\ Numeric(Part(g, 2))

ValidTotals(t) ==
    ~t.err /\ \A i \in 1..Len(t.fields) : ~GroupInvalid(t.fields[i])

\* the sum of the totals of the counted groups among the first n
RECURSIVE RefTotalUpTo(_, _)
RefTotalUpTo(fields, n) ==
    IF n = 0 THEN U64(0)
    ELSE IF GroupCounted(fields[n])
    THEN U64Add(RefTotalUpTo(fields, n - 1),
                Uint64Of(Parse(Part(fields[n], 2), 64)))
    ELSE RefTotalUpTo(fields, n - 1)

\* C13: on a valid totals record, parseTotal returns no error and the sum of
\* the totals of the groups with at least 4 parts and a year of 1960 or
\* later; groups of fewer than 4 parts and groups of an earlier year add
\* nothing and raise no error, whatever their fields are.
C13_ParseTotalSum ==
    (cpc = "totalDone" /\ ValidTotals(totals))
        => /\ totalErr = ""
           /\ totalWords = RefTotalUpTo(totals.fields, Len(totals.fields))

\* C13 witness: parseTotal has returned 107 for a group of 1960, a group of
\* 1950 whose total is no number, and a group of 1961
C13_Witness ==
    /\ cpc = "totalDone"
    /\ totals = TotalsRecord(<<G1960, G1950BadTotal, G1961>>)
    /\ totalErr = ""
    /\ totalWords = U64(107)

\* C14: once parseTotal has returned a parse error for a year or a total,
\* main calls runIngest no more: no goroutine is started and nothing is
\* returned for output.
C14_TotalsErrorIsFatal ==
    totalErr \in {"year", "total"}
        => launched = 0 /\ cpc \notin {"launch", "select", "returned"}

\* C15: every wordStat the collector holds has a word that is not empty,
\* has no upper-case letter and no period.
C15_TokenInvariant ==
    \A i \in 1..Len(wordStats) :
        LET word == wordStats[i].word
        IN  /\ word # <<>>
            /\ \A n \in 1..Len(word) :
                  /\ word[n] # "."
                  /\ \A u \in 1..Len(Upper) : word[n] # Upper[u]

\* C16: called with no source, runIngest returns an empty slice and no
\* error.
C16_NoSourcesReturns ==
    (cpc = "select" /\ Len(srcs) = 0) ~> (Success /\ retWords = <<>>)

\* C17: after runIngest has returned an error, every goroutine it launched
\* reaches the end of its function.
C17_WorkersFinishAfterError ==
    Failure ~> (\A w \in Launched : wpc[w] = "exit")

\* the sources in which the sum of word is above the threshold
SourcesAbove(word) ==
    {w \in Launched : U64Gt(RefSum(srcs[w], word), U64(10000))}

\* C18: on success a word has as many entries in the result as there are
\* sources in which its sum is above the threshold, one for each such
\* source with that source's sum as its frequency; a word whose sum is at
\* or below the threshold in every source has none, whatever its sum over
\* all the sources.
C18_SourceLocal ==
    Success =>
        \A word \in UNION {RefWords(srcs[w]) : w \in Launched} :
            /\ Cardinality({i \in 1..Len(retWords) : retWords[i].word = word})
                  = Cardinality(SourcesAbove(word))
            /\ \A w \in SourcesAbove(word) :
                  \E i \in 1..Len(retWords) :
                      retWords[i] = RefStat(srcs[w], word)

\* C18 witness: a success where "cat" is above the threshold in both
\* sources and has two entries, and "dog" has 10000 in one source and 1 in
\* the other and has none
C18_Witness ==
    /\ Success
    /\ Len(srcs) = 2
    /\ Cardinality(SourcesAbove(cat)) = 2
    /\ Cardinality({i \in 1..Len(retWords) : retWords[i].word = cat}) = 2
    /\ RefSum(srcs[1], dog) = U64(10000)
    /\ RefSum(srcs[2], dog) = U64(1)
    /\ \A i \in 1..Len(retWords) : retWords[i].word # dog

\* C19: an iteration on a row with a period in its token, or on a row whose
\* year is a number below 1960, sends no error and changes no map, whatever
\* the fields that the later checks would read.
C19_SkipBeforeLaterChecks ==
    [][\A w \in Workers :
          (/\ Reads(w) /\ ~RowRead(w).err
           /\ \/ HasPeriod(RowRead(w))
              \/ Numeric(RowRead(w).rec[2]) /\ YearOf(RowRead(w)) < 1960)
              => /\ wpc'[w] = "read"
                 /\ werr' = werr
                 /\ wordMap' = wordMap]_vars

\* C19 witness: a success on a source made of a row with a period whose
\* year and count are no numbers and a row of 1959 whose count is no number
C19_Witness ==
    /\ Success
    /\ \E w \in Launched :
          srcs[w] = <<Row(a_b, NotANumber, NotANumber),
                      Row(cat, Y1959, NotANumber)>>

\* C20: printing the first 100 entries never fails, and with fewer than 100
\* entries it prints all of them, in order.
C20_TruncationNeverFails ==
    /\ topPc # "panic"
    /\ topPc = "printed" =>
          topOut = SubSeq(topStats, 1,
                          IF topN < Len(topStats) THEN topN ELSE Len(topStats))

\* goroutine w hands a wordStat to the collector in this step
SendsWord(w) ==
    /\ Len(wordStats') = Len(wordStats) + 1
    /\ pending'[w] # pending[w]

\* C21: a goroutine hands over a wordStat only after it has read its source
\* to the end without an error, so only goroutines of well-formed sources
\* ever send one; and a goroutine that meets an error was still in its read
\* loop, with nothing sent.
C21_LocalThenEmit ==
    [][\A w \in Workers :
          /\ SendsWord(w) =>
                /\ pos[w] = Len(srcs[w])
                /\ werr[w] = NoErr
                /\ ~Malformed(srcs[w])
          /\ (werr[w] = NoErr /\ werr'[w] # NoErr) =>
                /\ wpc[w] = "read"
                /\ pending[w] = {}
                /\ \A i \in 1..Len(wordStats) :
                      wordStats[i].word \in DOMAIN wordMap[w] =>
                          \E v \in Launched \ {w} :
                              wordStats[i] \in SentBy(v)
      ]_vars

\* C21 witness: one goroutine has met an error with a sum above the
\* threshold in its map, and the collector holds a single wordStat, for
\* that same word, sent by the other goroutine
C21_Witness ==
    \E w, v \in Launched :
        /\ w # v
        /\ werr[w] # NoErr
        /\ \E k \in DOMAIN wordMap[w] : AboveMin(wordMap[w][k])
        /\ Len(wordStats) = 1
        /\ wordStats[1] \in SentBy(v)
        /\ wordStats[1].word \in DOMAIN wordMap[w]
        /\ pos[v] = Len(srcs[v])

\* the wordStats the source of goroutine w is due to yield
RefStats(w) ==
    {RefStat(srcs[w], k) :
        k \in {j \in RefWords(srcs[w]) : U64Gt(RefSum(srcs[w], j), U64(10000))}}

\* goroutine w is at its send on dChan, or the collector has received it
DoneAttempted(w) == wpc[w] = "sendDone" \/ (wpc[w] = "exit" /\ werr[w] = NoErr)
DoneReceived == {w \in Workers : wpc[w] = "exit" /\ werr[w] = NoErr}

\* the wordStats due from the goroutines among the first n that are at or
\* past their done signal
RECURSIVE DueFromFirst(_)
DueFromFirst(n) ==
    IF n = 0 THEN EmptyBag
    ELSE IF DoneAttempted(n)
    THEN DueFromFirst(n - 1) (+) SetToBag(RefStats(n))
    ELSE DueFromFirst(n - 1)

\* the signals are as they should be in this state
SignalsInOrder ==
    /\ routines >= 0
    /\ routines = launched - Cardinality(DoneReceived)
    /\ DueFromFirst(launched) \sqsubseteq BagOfSeq(wordStats)
    /\ \A w \in Workers :
          /\ wpc[w] = "sendDone" => werr[w] = NoErr
          /\ wpc[w] = "sendErr" => werr[w] # NoErr

\* C22: a goroutine at its error send or at its done send goes nowhere but
\* to its end, and from its end nowhere, so it attempts one terminal signal
\* and only one; and at all times a goroutine at or past its done signal
\* has handed all its wordStats to the collector, and routines is not
\* negative and is the number of goroutines launched less the number of
\* done signals received.
C22_OneTerminalSignal ==
    /\ []SignalsInOrder
    /\ [][\A w \in Workers :
             /\ wpc[w] = "exit" => wpc'[w] = "exit"
             /\ wpc[w] = "sendErr" => wpc'[w] \in {"sendErr", "exit"}
             /\ wpc[w] = "sendDone" => wpc'[w] \in {"sendDone", "exit"}
             /\ werr[w] # NoErr => werr'[w] = werr[w]]_vars

\* C22 witness: of two goroutines launched, one has had its done signal
\* received after handing over a wordStat, and the collector still waits
\* for the other
C22_Witness ==
    /\ cpc = "select"
    /\ launched = 2
    /\ routines = 1
    /\ \E w \in Launched :
          /\ wpc[w] = "exit" /\ werr[w] = NoErr
          /\ RefStats(w) # {}
          /\ \A x \in RefStats(w) : \E i \in 1..Len(wordStats) : wordStats[i] = x

\* n modulo 2^64 as a uint64, for -2^16 < n < 2^31
Mod2to64(n) ==
    IF n >= 0 THEN U64(n)
    ELSE [i \in 1..NLimbs |-> IF i = 1 THEN LimbBase + n ELSE LimbBase - 1]

\* the signed value of a count or total field (magnitudes below 2^16)
Signed(field) == IntOf(Parse(field, 64))

\* the arithmetic sum of the signed counts of the first n rows of src that
\* count towards word
RECURSIVE SignedSumUpTo(_, _, _)
SignedSumUpTo(src, word, n) ==
    IF n = 0 THEN 0
    ELSE IF RowCounted(src[n]) /\ RefCanon(src[n].rec[1]) = word
    THEN SignedSumUpTo(src, word, n - 1) + Signed(src[n].rec[3])
    ELSE SignedSumUpTo(src, word, n - 1)

\* the arithmetic sum of the signed totals of the counted groups among the
\* first n
RECURSIVE SignedTotalUpTo(_, _)
SignedTotalUpTo(fields, n) ==
    IF n = 0 THEN 0
    ELSE IF GroupCounted(fields[n])
    THEN SignedTotalUpTo(fields, n - 1) + Signed(Part(fields[n], 2))
    ELSE SignedTotalUpTo(fields, n - 1)

\* C23: every running sum of a goroutine is the arithmetic sum of the
\* signed counts read so far modulo 2^64, and so is the denominator for the
\* signed totals; a word whose signed counts sum to a negative number has on
\* success an entry whose occurrences are that sum plus 2^64, which is above
\* the threshold.
C23_SumsWrap ==
    /\ \A w \in Launched : \A k \in DOMAIN wordMap[w] :
          wordMap[w][k] = Mod2to64(SignedSumUpTo(srcs[w], k, pos[w]))
    /\ totalErr = "" =>
          totalWords = Mod2to64(SignedTotalUpTo(totals.fields, tpos))
    /\ Success =>
          \A w \in Launched : \A k \in RefWords(srcs[w]) :
              SignedSumUpTo(srcs[w], k, Len(srcs[w])) < 0 =>
                  \E i \in 1..Len(retWords) :
                      /\ retWords[i].word = k
                      /\ retWords[i].frequency.num =
                            Mod2to64(SignedSumUpTo(srcs[w], k, Len(srcs[w])))
                      /\ U64Gt(retWords[i].frequency.num, U64(10000))

\* C23 witness: a success with the total -1 as denominator and a word of
\* counts 1 and -2, returned with 2^64 - 1 occurrences
C23_Witness ==
    /\ Success
    /\ totals = TotalsRecord(<<G1960Minus1>>)
    /\ totalWords = [i \in 1..NLimbs |-> LimbBase - 1]
    /\ srcs = << <<Row(cat, Y1960, N1), Row(cat, Y1960, NMinus2)>> >>
    /\ Len(retWords) = 1
    /\ retWords[1].word = cat
    /\ retWords[1].frequency.num = [i \in 1..NLimbs |-> LimbBase - 1]

=============================================================================
